---- MODULE Spec2Model ----
(***************************************************************************)
(* A model of json_parser.cpp: the command line of main, the scan of the   *)
(* target directory, parseJsonFile's two extraction strategies, the        *)
(* duplicate bookkeeping, and the report written by writeResultsToFile.    *)
(*                                                                         *)
(* Strings are sequences of one-character strings.  A JSON string literal  *)
(* as it stands in a file is a sequence of units: a plain character, or    *)
(* "Q", the two-character escape \" .  The structured parse decodes a      *)
(* literal; the regular expressions read its raw characters.               *)
(***************************************************************************)
EXTENDS Integers, Sequences, FiniteSets, TLC

\* ------------------------------------------------------------------ bounds
MaxMembers == 2    \* "key": value occurrences in one file's text
MaxFiles == 4      \* .json files of the scanned directory
MaxArgs == 3       \* command-line arguments of a run whose exit code is examined

\* --------------------------------------------------------------- strings
EmptyStr == << >>
NotFound == <<"(not found)">>

\* The five keys of PlaylistData, in declaration order.
Fields == <<"playlistName", "shareCode", "authorName", "authorSteamId", "description">>
FieldSet == {Fields[i] : i \in 1..Len(Fields)}

\* String literals occurring in the modelled files.
StrLits == { <<"A">>, <<"A", "Q">> }

\* A member value: a string literal, or a value of another JSON type.
StringVal(lit) == [type |-> "string", lit |-> lit]
NumberVal == [type |-> "number", lit |-> EmptyStr]
Values == {StringVal(l) : l \in StrLits} \cup {NumberVal}

\* get<std::string>() of a parsed literal: escapes are decoded.
Decode(lit) == [i \in 1..Len(lit) |-> IF lit[i] = "Q" THEN "\"" ELSE lit[i]]

\* The characters of a literal as they stand in the file, between its quotes.
RECURSIVE RawText(_)
RawText(lit) ==
    IF lit = << >> THEN << >>
    ELSE (IF Head(lit) = "Q" THEN <<"\\", "\"">> ELSE <<Head(lit)>>) \o RawText(Tail(lit))

\* The capture group ([^"]*) followed by a quote: the characters before the first quote.
RECURSIVE UpToQuote(_)
UpToQuote(raw) ==
    IF raw = << >> \/ Head(raw) = "\"" THEN << >>
    ELSE <<Head(raw)>> \o UpToQuote(Tail(raw))

Capture(lit) == UpToQuote(RawText(lit))

\* ------------------------------------------------------- directory entries
\* One textual occurrence of  "key": value  in a file.  nested: the occurrence
\* is not a member of the top-level object (it lies inside a nested object or
\* array, or the top-level value is not an object).
Members == [key : FieldSet, val : Values, nested : BOOLEAN]

\* The sequences over S of length at most n.
SeqsUpTo(S, n) == UNION {[1..m -> S] : m \in 0..n}

\* A directory entry.  regular/ext: what the scan loop tests.  readable: whether
\* the ifstream opens.  size = 0: a zero-length file.  valid: whether the text is
\* well-formed JSON.  members: the "key": value occurrences of the text, in
\* textual order.
Entry(regular, ext, readable, size, valid, members) ==
    [regular |-> regular, ext |-> ext, readable |-> readable, size |-> size,
     valid |-> valid, members |-> members]

JsonFile(valid, members) == Entry(TRUE, ".json", TRUE, 1, valid, members)
EmptyFile == Entry(TRUE, ".json", TRUE, 0, FALSE, << >>)
UnreadableFile == Entry(TRUE, ".json", FALSE, 1, FALSE, << >>)
SubDirectory == Entry(FALSE, ".json", FALSE, 0, FALSE, << >>)
TextFile == Entry(TRUE, ".txt", TRUE, 1, FALSE, << >>)
NoEntry == Entry(FALSE, "", FALSE, 0, FALSE, << >>)

Member(k, lit) == [key |-> k, val |-> StringVal(lit), nested |-> FALSE]

\* The occurrences of a text that holds each key at most once, at the top
\* level, in the order of Fields.  f maps a key to its value or to Absent.
Absent == [type |-> "absent", lit |-> EmptyStr]

RECURSIVE FlatMembers(_, _)
FlatMembers(f, i) ==
    IF i > Len(Fields) THEN << >>
    ELSE (IF f[Fields[i]] = Absent THEN << >>
          ELSE <<[key |-> Fields[i], val |-> f[Fields[i]], nested |-> FALSE]>>)
         \o FlatMembers(f, i + 1)

FlatFiles ==
    {JsonFile(v, FlatMembers(f, 1)) :
        v \in BOOLEAN, f \in [FieldSet -> Values \cup {Absent}]}

\* The files parseJsonFile is examined on: every text of at most MaxMembers
\* occurrences, every text holding each key at most once, and the two files
\* without content.
AllFiles ==
    {JsonFile(v, ms) : v \in BOOLEAN, ms \in SeqsUpTo(Members, MaxMembers)}
        \cup FlatFiles \cup {EmptyFile, UnreadableFile}

\* The entries of a scanned directory: well-formed flat files carrying a share
\* code with or without a playlist name, an empty file, and entries the scan skips.
DirEntries ==
    {JsonFile(TRUE, <<Member("playlistName", n), Member("shareCode", c)>>) :
        n \in StrLits, c \in StrLits}
        \cup {JsonFile(TRUE, <<Member("shareCode", <<"A">>)>>),
              EmptyFile, SubDirectory, TextFile}

\* ------------------------------------------------------------ PlaylistData
EmptyData == [k \in FieldSet |-> EmptyStr]

\* readFileToString: empty when the file cannot be opened or has no bytes.
readFileToString(e) ==
    IF ~e.readable \/ e.size = 0
    THEN [empty |-> TRUE, valid |-> FALSE, members |-> << >>]
    ELSE [empty |-> FALSE, valid |-> e.valid, members |-> e.members]

\* The fields a run reads: the two mandatory ones, and the optional ones of the
\* enabled modes.
Wanted(k, includeAuthor, includeDescription) ==
    \/ k \in {"playlistName", "shareCode"}
    \/ includeAuthor /\ k \in {"authorName", "authorSteamId"}
    \/ includeDescription /\ k = "description"

\* j.contains(k) && j[k].is_string() ? j[k].get<std::string>() : (left empty).
\* j holds the top-level members; of two members with one key the later stands.
JsonString(content, k) ==
    LET top == {i \in 1..Len(content.members) :
                   content.members[i].key = k /\ ~content.members[i].nested}
    IN IF top = {} THEN EmptyStr
       ELSE LET last == CHOOSE i \in top : \A j \in top : j <= i
            IN IF content.members[last].val.type = "string"
               THEN Decode(content.members[last].val.lit)
               ELSE EmptyStr

\* The try block: json::parse throws on malformed text before any field is set.
StructuredParse(content, includeAuthor, includeDescription) ==
    IF ~content.valid THEN EmptyData
    ELSE [k \in FieldSet |->
            IF Wanted(k, includeAuthor, includeDescription)
            THEN JsonString(content, k) ELSE EmptyStr]

\* NeedsFallback with the description test written as || instead of &&.
NeedsFallback_ModeAlone(data, includeAuthor, includeDescription) ==
    \/ data.playlistName = EmptyStr
    \/ data.shareCode = EmptyStr
    \/ includeAuthor /\ (data.authorName = EmptyStr \/ data.authorSteamId = EmptyStr)
    \/ includeDescription \/ data.description = EmptyStr

\* The condition guarding the regular expressions.
NeedsFallback(data, includeAuthor, includeDescription) ==
    \/ data.playlistName = EmptyStr
    \/ data.shareCode = EmptyStr
    \/ includeAuthor /\ (data.authorName = EmptyStr \/ data.authorSteamId = EmptyStr)
    \/ includeDescription /\ data.description = EmptyStr

\* RegexSearch taking the rightmost occurrence.
RegexSearch_Last(content, k) ==
    LET hits == {i \in 1..Len(content.members) :
                    content.members[i].key = k /\ content.members[i].val.type = "string"}
    IN IF hits = {} THEN 0 ELSE CHOOSE i \in hits : \A j \in hits : j <= i

\* std::regex_search for "k"\s*:\s*"([^"]*)": the leftmost occurrence of the key
\* followed by a string literal, at any depth.  0 when there is none.
RegexSearch(content, k) ==
    LET hits == {i \in 1..Len(content.members) :
                    content.members[i].key = k /\ content.members[i].val.type = "string"}
    IN IF hits = {} THEN 0 ELSE CHOOSE i \in hits : \A j \in hits : i <= j

\* The body of the fallback: each wanted field the pattern finds is assigned.
RegexFallback(content, data, includeAuthor, includeDescription) ==
    [k \in FieldSet |->
        IF Wanted(k, includeAuthor, includeDescription) /\ RegexSearch(content, k) # 0
        THEN Capture(content.members[RegexSearch(content, k)].val.lit)
        ELSE data[k]]

Shown(v) == IF v = EmptyStr THEN NotFound ELSE v

\* Diagnostic without the lines of the optional fields.
Diagnostic_NoOptional(data, includeAuthor, includeDescription) ==
    <<<<"File: ", <<"f.json">>>>,
      <<"  playlistName: ", Shown(data.playlistName)>>,
      <<"  shareCode: ", Shown(data.shareCode)>>>>

\* The per-file lines written to std::cout.
Diagnostic(data, includeAuthor, includeDescription) ==
    <<<<"File: ", <<"f.json">>>>,
      <<"  playlistName: ", Shown(data.playlistName)>>,
      <<"  shareCode: ", Shown(data.shareCode)>>>>
    \o (IF includeAuthor
        THEN <<<<"  authorName: ", Shown(data.authorName)>>,
               <<"  authorSteamId: ", Shown(data.authorSteamId)>>>>
        ELSE << >>)
    \o (IF includeDescription
        THEN <<<<"  description: ", Shown(data.description)>>>>
        ELSE << >>)

\* parseJsonFile.  have: whether the build has the structured parser.  Besides
\* the returned data the record keeps what the structured parse left
\* (structured), whether it completed (parsedOk), whether the fallback ran, and
\* the lines written to std::cout (out) and std::cerr (err).
parseJsonFile(e, includeAuthor, includeDescription, have) ==
    LET content == readFileToString(e)
        s == IF have THEN StructuredParse(content, includeAuthor, includeDescription)
             ELSE EmptyData
        fb == NeedsFallback(s, includeAuthor, includeDescription)
        d == IF fb THEN RegexFallback(content, s, includeAuthor, includeDescription) ELSE s
    IN IF content.empty
       THEN [data |-> EmptyData, structured |-> EmptyData, parsedOk |-> FALSE,
             fallback |-> FALSE, out |-> << >>,
             err |-> <<<<"Failed to open or empty file: ", <<"f.json">>>>>>]
       ELSE [data |-> d, structured |-> s, parsedOk |-> have /\ content.valid,
             fallback |-> fb, out |-> Diagnostic(d, includeAuthor, includeDescription),
             err |-> << >>]

NoParse ==
    [data |-> EmptyData, structured |-> EmptyData, parsedOk |-> FALSE,
     fallback |-> FALSE, out |-> << >>, err |-> << >>]

\* ------------------------------------------------------------- the report
\* One block of the report: the lines writeResultsToFile writes for a record.
Block(result, includeAuthor, includeDescription) ==
    <<<<"Playlist Name: ", Shown(result.playlistName)>>,
      <<"Share Code: ", Shown(result.shareCode)>>>>
    \o (IF includeAuthor /\ result.authorName # EmptyStr /\ result.authorSteamId # EmptyStr
        THEN <<<<"Author: ", result.authorName, " SID: ", result.authorSteamId>>>>
        ELSE << >>)
    \o (IF includeDescription /\ result.description # EmptyStr
        THEN <<<<"Description: ", result.description>>>>
        ELSE << >>)
    \o << << >> >>

\* writeResultsToFile: nothing when the stream does not open, else one block per
\* element of results, in order.
NoFile == [written |-> FALSE, path |-> <<"", "">>, blocks |-> << >>]

writeResultsToFile(res, outputFile, includeAuthor, includeDescription, canOpen) ==
    IF ~canOpen THEN NoFile
    ELSE [written |-> TRUE, path |-> outputFile,
          blocks |-> [i \in 1..Len(res) |-> Block(res[i], includeAuthor, includeDescription)]]

\* ---------------------------------------------------------- the file system
\* The paths a command line can name.  "." and "dir" are directories, "file" is
\* a regular file, "nope" and the empty path do not exist.
Paths == {"dir", "file", "nope", ""}
Exists(p) == p \in {".", "dir", "file"}
IsDirectory(p) == p \in {".", "dir"}
\* fs::path(folderPath).parent_path() of a one-component path.
ParentPath(p) == ""

\* ------------------------------------------------------------ command line
Flags == {"-a", "-d", "-q", "-o", "-n"}
Tokens == Flags \cup Paths

\* main's locals before the argument loop.
DefaultOptions ==
    [includeAuthor |-> FALSE, includeDescription |-> FALSE, skipStats |-> FALSE,
     folderPath |-> ".", outputPath |-> "", outputFilename |-> "results.txt",
     failed |-> FALSE]

\* The argument loop from index i on (argv[0] left out: args[1] is argv[1]).
\* failed: the loop returned 1 for an option without its value.
RECURSIVE ParseArguments(_, _, _)
ParseArguments(args, i, o) ==
    IF i > Len(args) THEN o
    ELSE LET arg == args[i] IN
         CASE arg = "-a" -> ParseArguments(args, i + 1, [o EXCEPT !.includeAuthor = TRUE])
           [] arg = "-d" -> ParseArguments(args, i + 1, [o EXCEPT !.includeDescription = TRUE])
           [] arg = "-q" -> ParseArguments(args, i + 1, [o EXCEPT !.skipStats = TRUE])
           [] arg = "-o" ->
                IF i + 1 <= Len(args)
                THEN ParseArguments(args, i + 2, [o EXCEPT !.outputPath = args[i + 1]])
                ELSE [o EXCEPT !.failed = TRUE]
           [] arg = "-n" ->
                IF i + 1 <= Len(args)
                THEN ParseArguments(args, i + 2, [o EXCEPT !.outputFilename = args[i + 1]])
                ELSE [o EXCEPT !.failed = TRUE]
           [] OTHER -> ParseArguments(args, i + 1, [o EXCEPT !.folderPath = arg])

\* The checks of the target path and of the output path: the exit code they
\* return, or 0 when the run goes on to the scan.
ValidationExit(folder, output) ==
    IF ~Exists(folder) THEN 1
    ELSE IF ~IsDirectory(folder) THEN 1
    ELSE IF output # "" /\ ~Exists(output) THEN 1
    ELSE IF output # "" /\ ~IsDirectory(output) THEN 1
    ELSE 0

\* The path of the report.
OutputFile(folder, output, name) ==
    IF output # "" THEN <<output, name>> ELSE <<ParentPath(folder), name>>

\* ------------------------------------------------------------------- state
VARIABLES
    pc,                  \* where main stands: "args", "validate", "scan", "report", "exit"
    haveNlohmann,        \* HAVE_NLOHMANN_JSON: the build has the structured parser
                         \* (both variants of the #if at lines 13-19 and 47-67)
    argv,                \* argv[1..]
    includeAuthor, includeDescription, skipStats,
    folderPath, outputPath, outputFilename,
    results, seenShareCodes, seenPlaylistNames,
    fileCount, successfulParses, failedParses, duplicateShareCodes, duplicateNames,
    entry,               \* the directory entry of the latest loop iteration
    parsed,              \* what parseJsonFile did for the latest .json file
    scanned,             \* the data parseJsonFile returned, one per .json file, in scan order
    console,             \* the lines main itself wrote to std::cout in the latest step
    errors,              \* the lines main itself wrote to std::cerr in the latest step
    openTried,           \* whether the report was opened for writing
    outFile,             \* the report on disk
    exitCode             \* -1 while the process runs

optVars == <<includeAuthor, includeDescription, skipStats, folderPath, outputPath, outputFilename>>
aggVars == <<results, seenShareCodes, seenPlaylistNames, fileCount, successfulParses,
             failedParses, duplicateShareCodes, duplicateNames>>
vars == <<pc, haveNlohmann, argv, optVars, aggVars, entry, parsed, scanned, console,
          errors, openTried, outFile, exitCode>>

\* The locals of main declared before the scan loop.
AggInit ==
    /\ results = << >>
    /\ seenShareCodes = {}
    /\ seenPlaylistNames = {}
    /\ fileCount = 0
    /\ successfulParses = 0
    /\ failedParses = 0
    /\ duplicateShareCodes = 0
    /\ duplicateNames = 0

RestInit ==
    /\ haveNlohmann \in BOOLEAN
    /\ AggInit
    /\ entry = NoEntry
    /\ parsed = NoParse
    /\ scanned = << >>
    /\ errors = << >>
    /\ openTried = FALSE
    /\ outFile = NoFile
    /\ exitCode = -1

\* The process at the entry of main, for a command line of args.
StartWith(args) ==
    /\ pc = "args"
    /\ argv = args
    /\ includeAuthor = DefaultOptions.includeAuthor
    /\ includeDescription = DefaultOptions.includeDescription
    /\ skipStats = DefaultOptions.skipStats
    /\ folderPath = DefaultOptions.folderPath
    /\ outputPath = DefaultOptions.outputPath
    /\ outputFilename = DefaultOptions.outputFilename
    /\ console = << >>
    /\ RestInit

\* The runs followed through the scan: each combination of the author,
\* description and quiet modes, over the current directory.
ModeArgs ==
    { << >>, <<"-a">>, <<"-d">>, <<"-q">>, <<"-a", "-d">>, <<"-a", "-q">>,
      <<"-d", "-q">>, <<"-a", "-d", "-q">> }

Init == \E args \in ModeArgs : StartWith(args)

InitArgs == \E args \in SeqsUpTo(Tokens, MaxArgs) : StartWith(args)

\* ----------------------------------------------------------------- actions
\* The argument loop.
ParseArgs ==
    /\ pc = "args"
    /\ LET o == ParseArguments(argv, 1, DefaultOptions) IN
        /\ includeAuthor' = o.includeAuthor
        /\ includeDescription' = o.includeDescription
        /\ skipStats' = o.skipStats
        /\ folderPath' = o.folderPath
        /\ outputPath' = o.outputPath
        /\ outputFilename' = o.outputFilename
        /\ IF o.failed
           THEN /\ pc' = "exit"
                /\ exitCode' = 1
                /\ errors' = <<<<"Error: option requires a value">>>>
           ELSE /\ pc' = "validate"
                /\ exitCode' = exitCode
                /\ errors' = << >>
    /\ console' = << >>
    /\ UNCHANGED <<haveNlohmann, argv, aggVars, entry, parsed, scanned, openTried, outFile>>

\* The checks of folderPath and outputPath, and the "Scanning folder" line.
ValidatePaths ==
    /\ pc = "validate"
    /\ IF ValidationExit(folderPath, outputPath) = 1
       THEN /\ pc' = "exit"
            /\ exitCode' = 1
            /\ errors' = <<<<"Error: bad path">>>>
            /\ console' = << >>
       ELSE /\ pc' = "scan"
            /\ exitCode' = exitCode
            /\ errors' = << >>
            /\ console' = <<<<"Scanning folder: ", folderPath>>>>
    /\ UNCHANGED <<haveNlohmann, argv, optVars, aggVars, entry, parsed, scanned,
                   openTried, outFile>>

\* EntersPipeline without the test of the extension.
EntersPipeline_AnyRegular(e) == e.regular

\* entry.is_regular_file() && entry.path().extension() == ".json"
EntersPipeline(e) == e.regular /\ e.ext = ".json"

\* IsSuccess testing the share code alone.
IsSuccess_ShareCodeOnly(data) == data.shareCode # EmptyStr

\* !data.playlistName.empty() && !data.shareCode.empty()
IsSuccess(data) == data.playlistName # EmptyStr /\ data.shareCode # EmptyStr

\* IsDuplicateShareCode looking up the playlist name.
IsDuplicateShareCode_ByName(seen, data) == data.playlistName \in seen

\* seenShareCodes.count(data.shareCode)
IsDuplicateShareCode(seen, data) == data.shareCode \in seen

\* IsDuplicateName looking up the share code.
IsDuplicateName_ByShareCode(seen, data) == data.shareCode \in seen

\* seenPlaylistNames.count(data.playlistName)
IsDuplicateName(seen, data) == data.playlistName \in seen

\* One iteration of the scan loop, for directory entry e.  limit bounds the
\* number of .json files of the directory.
ScanEntry(e, limit) ==
    /\ pc = "scan"
    /\ entry' = e
    /\ errors' = << >>
    /\ IF EntersPipeline(e)
       THEN /\ fileCount < limit
            /\ LET p == parseJsonFile(e, includeAuthor, includeDescription, haveNlohmann)
                   data == p.data
               IN /\ fileCount' = fileCount + 1
                  /\ parsed' = p
                  /\ scanned' = Append(scanned, data)
                  /\ IF IsSuccess(data)
                     THEN /\ successfulParses' = successfulParses + 1
                          /\ failedParses' = failedParses
                          /\ IF IsDuplicateShareCode(seenShareCodes, data)
                             THEN /\ duplicateShareCodes' = duplicateShareCodes + 1
                                  /\ seenShareCodes' = seenShareCodes
                             ELSE /\ duplicateShareCodes' = duplicateShareCodes
                                  /\ seenShareCodes' = seenShareCodes \cup {data.shareCode}
                          /\ IF IsDuplicateName(seenPlaylistNames, data)
                             THEN /\ duplicateNames' = duplicateNames + 1
                                  /\ seenPlaylistNames' = seenPlaylistNames
                             ELSE /\ duplicateNames' = duplicateNames
                                  /\ seenPlaylistNames' = seenPlaylistNames \cup {data.playlistName}
                          /\ results' = Append(results, data)
                          /\ console' =
                               (IF IsDuplicateShareCode(seenShareCodes, data)
                                THEN <<<<"  [WARNING] Duplicate share code detected: ",
                                         data.shareCode>>>>
                                ELSE << >>)
                               \o (IF IsDuplicateName(seenPlaylistNames, data)
                                   THEN <<<<"  [WARNING] Duplicate playlist name detected: ",
                                            data.playlistName>>>>
                                   ELSE << >>)
                     ELSE /\ failedParses' = failedParses + 1
                          /\ console' = << >>
                          /\ UNCHANGED <<results, seenShareCodes, seenPlaylistNames,
                                         successfulParses, duplicateShareCodes,
                                         duplicateNames>>
       ELSE /\ console' = << >>
            /\ UNCHANGED <<aggVars, parsed, scanned>>
    /\ UNCHANGED <<pc, haveNlohmann, argv, optVars, openTried, outFile, exitCode>>

\* The directory is exhausted: the statistics block, unless -q.
EndScan ==
    /\ pc = "scan"
    /\ pc' = "report"
    /\ console' =
         IF skipStats THEN << >>
         ELSE <<<<"Total files processed: ", fileCount>>,
                <<"Successful parses: ", successfulParses>>,
                <<"Failed parses: ", failedParses>>,
                <<"Duplicate share codes: ", duplicateShareCodes>>,
                <<"Duplicate playlist names: ", duplicateNames>>>>
    /\ errors' = << >>
    /\ UNCHANGED <<haveNlohmann, argv, optVars, aggVars, entry, parsed, scanned,
                   openTried, outFile, exitCode>>

\* WritesReport without the test of successfulParses.
WritesReport_AnyFile(files, successes) == files # 0

\* Whether main calls writeResultsToFile.
WritesReport(files, successes) == files # 0 /\ successes > 0

\* The end of main: the report or the reason for none, and return 0.  canOpen:
\* whether the std::ofstream opens.
WriteReport(canOpen) ==
    /\ pc = "report"
    /\ pc' = "exit"
    /\ exitCode' = 0
    /\ IF WritesReport(fileCount, successfulParses)
       THEN /\ openTried' = TRUE
            /\ outFile' = writeResultsToFile(results,
                              OutputFile(folderPath, outputPath, outputFilename),
                              includeAuthor, includeDescription, canOpen)
            /\ console' = IF canOpen THEN <<<<"Results written to ">>>> ELSE << >>
            /\ errors' = IF canOpen THEN << >> ELSE <<<<"Failed to open output file: ">>>>
       ELSE /\ canOpen
            /\ console' = IF fileCount = 0
                          THEN <<<<"No .json files found in the directory.">>>>
                          ELSE <<<<"No valid results to write.">>>>
            /\ errors' = << >>
            /\ UNCHANGED <<openTried, outFile>>
    /\ UNCHANGED <<haveNlohmann, argv, optVars, aggVars, entry, parsed, scanned>>

Next ==
    \/ ParseArgs
    \/ ValidatePaths
    \/ \E e \in DirEntries : ScanEntry(e, MaxFiles)
    \/ EndScan
    \/ \E canOpen \in BOOLEAN : WriteReport(canOpen)

Spec == Init /\ [][Next]_vars

\* The runs whose exit code is examined: every command line within MaxArgs,
\* over a directory of at most one .json file.
NextArgs ==
    \/ ParseArgs
    \/ ValidatePaths
    \/ \E e \in DirEntries : ScanEntry(e, 1)
    \/ EndScan
    \/ \E canOpen \in BOOLEAN : WriteReport(canOpen)

SpecArgs == InitArgs /\ [][NextArgs]_vars

\* The runs in which parseJsonFile is examined: the modes of Init, and one file
\* out of AllFiles.
\* The first iteration of the scan loop, over any file.
ScanFirstFile ==
    /\ pc = "scan"
    /\ fileCount = 0
    /\ \E e \in AllFiles : ScanEntry(e, 1)

NextParse ==
    \/ ParseArgs
    \/ ValidatePaths
    \/ ScanFirstFile

SpecParse == Init /\ [][NextParse]_vars

\* ------------------------------------------------------------------ claims
\* A record with both mandatory fields.
HasBoth(d) == d.playlistName # EmptyStr /\ d.shareCode # EmptyStr

\* The step is an iteration of the scan loop over a regular .json file.
FileStep == pc = "scan" /\ pc' = "scan" /\ entry'.regular /\ entry'.ext = ".json"

\* The records of the files scanned before the latest one carry share code c
\* (among all of them / among the successful ones).
SeenBefore(c) == \E i \in 1..Len(scanned) : scanned[i].shareCode = c
SeenBeforeInSuccess(c) ==
    \E i \in 1..Len(scanned) : HasBoth(scanned[i]) /\ scanned[i].shareCode = c

\* C1 as stated: a file carrying a share code increments duplicateShareCodes by
\* one exactly when an earlier file, successful or failed, carried that share
\* code, whatever its playlistName.
C1_AnyEarlierFile ==
    [][FileStep /\ parsed'.data.shareCode # EmptyStr =>
        duplicateShareCodes' = duplicateShareCodes
            + (IF SeenBefore(parsed'.data.shareCode) THEN 1 ELSE 0)]_vars

\* C1 amended: a file increments duplicateShareCodes by one exactly when it is
\* a successful parse and an earlier successful parse carried its share code
\* (every occurrence after the first successful one, whatever the
\* playlistName); a failed parse neither increments it nor counts as an
\* earlier occurrence.
C1_DuplicateShareCodes ==
    [][FileStep =>
        duplicateShareCodes' = duplicateShareCodes
            + (IF HasBoth(parsed'.data) /\ SeenBeforeInSuccess(parsed'.data.shareCode)
               THEN 1 ELSE 0)]_vars

\* Three successful files with one share code, not all of one name, after a
\* failed file that carried the same share code.
C1_Witness ==
    /\ duplicateShareCodes = 2
    /\ duplicateNames < 2
    /\ Cardinality(seenShareCodes) = 1
    /\ \E i \in 1..Len(scanned) : ~HasBoth(scanned[i]) /\ scanned[i].shareCode \in seenShareCodes

\* The structured parse completed for the file of the latest iteration.
ParsedFile == fileCount = 1 /\ parsed.parsedOk

\* C2 as stated: when the structured parse yields playlistName and shareCode,
\* the fallback is not invoked, in every combination of the modes.
C2_MandatoryOnly ==
    ParsedFile /\ HasBoth(parsed.structured) => ~parsed.fallback

\* The structured parse left no field of this run's modes empty.
AllWanted(d) ==
    /\ HasBoth(d)
    /\ includeAuthor => d.authorName # EmptyStr /\ d.authorSteamId # EmptyStr
    /\ includeDescription => d.description # EmptyStr

\* C2 amended: when the structured parse yields playlistName and shareCode, and
\* authorName and authorSteamId in author mode, and description in description
\* mode, the fallback is not invoked; with both mandatory fields and one of the
\* enabled optional fields missing it is invoked.
C2_FallbackNotInvoked ==
    ParsedFile /\ HasBoth(parsed.structured) =>
        (parsed.fallback <=> ~AllWanted(parsed.structured))

\* Author and description mode, every field parsed, no fallback.
C2_Witness ==
    /\ ParsedFile
    /\ includeAuthor
    /\ includeDescription
    /\ AllWanted(parsed.structured)
    /\ ~parsed.fallback

\* C3: when the fallback runs after a structured parse, every field the
\* structured parse set keeps its value in the returned record.
C3_FallbackOnlyFillsGaps ==
    ParsedFile /\ parsed.fallback =>
        \A k \in FieldSet :
            parsed.structured[k] # EmptyStr => parsed.data[k] = parsed.structured[k]

\* The lines of the per-file diagnostic for record d.
IsDiagnosticOf(out, d) ==
    /\ Len(out) = 3 + (IF includeAuthor THEN 2 ELSE 0) + (IF includeDescription THEN 1 ELSE 0)
    /\ out[1][1] = "File: "
    /\ out[2] = <<"  playlistName: ", IF d.playlistName = EmptyStr THEN NotFound ELSE d.playlistName>>
    /\ out[3] = <<"  shareCode: ", IF d.shareCode = EmptyStr THEN NotFound ELSE d.shareCode>>
    /\ includeAuthor =>
          /\ out[4] = <<"  authorName: ", IF d.authorName = EmptyStr THEN NotFound ELSE d.authorName>>
          /\ out[5] = <<"  authorSteamId: ",
                        IF d.authorSteamId = EmptyStr THEN NotFound ELSE d.authorSteamId>>
    /\ includeDescription =>
          out[Len(out)] = <<"  description: ",
                            IF d.description = EmptyStr THEN NotFound ELSE d.description>>

\* The file of the latest iteration has no content to read.
NoContent == ~entry.readable \/ entry.size = 0

\* C4 as stated: every file that enters the pipeline gets the diagnostic.
C4_EveryFile ==
    fileCount = 1 => IsDiagnosticOf(parsed.out, parsed.data)

\* C4 amended: every file that enters the pipeline with content gets the
\* diagnostic, in quiet mode too; an unreadable or zero-length file gets no
\* diagnostic, only the failure line on std::cerr.
C4_Diagnostic ==
    fileCount = 1 =>
        IF NoContent
        THEN parsed.out = << >> /\ Len(parsed.err) = 1
        ELSE IsDiagnosticOf(parsed.out, parsed.data) /\ parsed.err = << >>

\* Quiet mode and author mode, a failed parse of a file with content.
C4_Witness ==
    /\ fileCount = 1
    /\ skipStats
    /\ includeAuthor
    /\ ~NoContent
    /\ ~HasBoth(parsed.data)
    /\ IsDiagnosticOf(parsed.out, parsed.data)

\* C5: between two files and at the end of the run successfulParses +
\* failedParses = fileCount; fileCount grows by one in exactly the iterations
\* over a regular .json file, whatever the outcome; no counter ever decreases.
C5_CountersAddUp ==
    /\ [](successfulParses + failedParses = fileCount)
    /\ [][/\ fileCount' = fileCount + (IF FileStep THEN 1 ELSE 0)
          /\ successfulParses' >= successfulParses
          /\ failedParses' >= failedParses
          /\ duplicateShareCodes' >= duplicateShareCodes
          /\ duplicateNames' >= duplicateNames]_vars

\* A run that met a successful file, a failed file and a skipped entry.
C5_Witness ==
    /\ successfulParses >= 1
    /\ failedParses >= 1
    /\ fileCount >= 3
    /\ ~(entry.regular /\ entry.ext = ".json")

\* The successful records among the scanned files, in scan order.
Successful == SelectSeq(scanned, HasBoth)

\* C6: the report is opened only after at least one file was found and at
\* least one parse succeeded; no file, or no success, leaves nothing written;
\* a written report holds one block per successful record, in scan order, and
\* none for a failed parse.
C6_Report ==
    /\ openTried => Len(scanned) > 0 /\ Len(Successful) > 0
    /\ Len(Successful) = 0 => ~openTried /\ ~outFile.written /\ outFile.blocks = << >>
    /\ outFile.written =>
          /\ openTried
          /\ Len(outFile.blocks) = Len(Successful)
          /\ \A i \in 1..Len(Successful) :
                /\ outFile.blocks[i][1] = <<"Playlist Name: ", Successful[i].playlistName>>
                /\ outFile.blocks[i][2] = <<"Share Code: ", Successful[i].shareCode>>
    /\ pc = "exit" /\ Len(Successful) > 0 => openTried

\* A written report of two blocks with differing names, after a run that also
\* met a failed parse.
C6_Witness ==
    /\ outFile.written
    /\ Len(outFile.blocks) = 2
    /\ outFile.blocks[1][1] # outFile.blocks[2][1]
    /\ failedParses >= 1

\* The value given to the latest -o that has one, as a one-element sequence;
\* empty when no -o has a value.
RECURSIVE SuppliedOutput(_, _, _)
SuppliedOutput(args, i, sofar) ==
    IF i > Len(args) THEN sofar
    ELSE IF args[i] \in {"-o", "-n"}
         THEN IF i + 1 > Len(args) THEN sofar
              ELSE SuppliedOutput(args, i + 2, IF args[i] = "-o" THEN <<args[i + 1]>> ELSE sofar)
         ELSE SuppliedOutput(args, i + 1, sofar)

\* -o or -n stands last, in option position, with no value after it.
RECURSIVE MissingValue(_, _)
MissingValue(args, i) ==
    IF i > Len(args) THEN FALSE
    ELSE IF args[i] \in {"-o", "-n"}
         THEN i + 1 > Len(args) \/ MissingValue(args, i + 2)
         ELSE MissingValue(args, i + 1)

\* The target path: the last argument that is neither an option nor an
\* option's value, "." when there is none.
RECURSIVE TargetPath(_, _, _)
TargetPath(args, i, sofar) ==
    IF i > Len(args) THEN sofar
    ELSE IF args[i] \in {"-o", "-n"} THEN TargetPath(args, i + 2, sofar)
    ELSE IF args[i] \in {"-a", "-d", "-q"} THEN TargetPath(args, i + 1, sofar)
    ELSE TargetPath(args, i + 1, args[i])

ExitOneCase ==
    \/ MissingValue(argv, 1)
    \/ ~Exists(TargetPath(argv, 1, "."))
    \/ ~IsDirectory(TargetPath(argv, 1, "."))
    \/ \E i \in 1..Len(SuppliedOutput(argv, 1, << >>)) :
          \/ ~Exists(SuppliedOutput(argv, 1, << >>)[i])
          \/ ~IsDirectory(SuppliedOutput(argv, 1, << >>)[i])

\* C7: the process exits with 1 exactly when the target path is missing or no
\* directory, a supplied output path is missing or no directory, or -o/-n lacks
\* its value, and then before any file is scanned; every other run exits with 0.
C7_ExitCode ==
    pc = "exit" =>
        /\ exitCode = 1 <=> ExitOneCase
        /\ exitCode # 1 => exitCode = 0
        /\ exitCode = 1 => fileCount = 0 /\ entry = NoEntry /\ scanned = << >>

\* The captures of the "shareCode": "X" occurrences of the latest file, in
\* textual order.
RECURSIVE ShareCodeCaptures(_)
ShareCodeCaptures(ms) ==
    IF ms = << >> THEN << >>
    ELSE (IF Head(ms).key = "shareCode" /\ Head(ms).val.type = "string"
          THEN <<UpToQuote(RawText(Head(ms).val.lit))>> ELSE << >>)
         \o ShareCodeCaptures(Tail(ms))

\* The latest file has content that is not well-formed JSON.
Malformed == fileCount = 1 /\ ~NoContent /\ ~entry.valid

\* C8 as stated: a malformed file returns shareCode = X for every
\* "shareCode": "X" its text contains.
C8_AnyOccurrence ==
    Malformed =>
        \A i \in 1..Len(ShareCodeCaptures(entry.members)) :
            parsed.data.shareCode = ShareCodeCaptures(entry.members)[i]

\* C8 amended: a malformed file containing "shareCode": "X" returns the X of
\* the leftmost such occurrence, whatever else the text holds.
C8_FirstOccurrence ==
    Malformed /\ ShareCodeCaptures(entry.members) # << >> =>
        parsed.data.shareCode = ShareCodeCaptures(entry.members)[1]

\* A malformed file with two occurrences of differing values.
C8_Witness ==
    /\ Malformed
    /\ Len(ShareCodeCaptures(entry.members)) = 2
    /\ ShareCodeCaptures(entry.members)[1] # ShareCodeCaptures(entry.members)[2]
    /\ parsed.data.shareCode = ShareCodeCaptures(entry.members)[1]

C10_Bookkeeping ==
    /\ duplicateShareCodes + Cardinality(seenShareCodes) = successfulParses
    /\ duplicateNames + Cardinality(seenPlaylistNames) = successfulParses
    /\ Len(results) = successfulParses
    /\ \A i \in 1..Len(results) :
          results[i].playlistName # EmptyStr /\ results[i].shareCode # EmptyStr
    /\ \A i \in 1..Len(outFile.blocks) :
          outFile.blocks[i][1][2] # NotFound /\ outFile.blocks[i][2][2] # NotFound

\* A written report that holds the record of a duplicate.
C10_Witness ==
    /\ outFile.written
    /\ duplicateShareCodes >= 1
    /\ duplicateNames >= 1
    /\ Len(outFile.blocks) = successfulParses
    /\ Cardinality(seenShareCodes) < successfulParses

====
